---- MODULE Spec2Model ----
(***************************************************************************)
(* Transactions of rust-rocksdb (src/transactions/transaction.rs).         *)
(*                                                                         *)
(* Transaction<'db, DB> is a handle (`inner`) on a transaction of the      *)
(* storage engine.  Every method forwards to one engine call and returns   *)
(* its status; `commit` takes the transaction by value, every other method *)
(* borrows it; Drop destroys the handle.  The engine behind the handle     *)
(* (write batch, conflict records, lock table, savepoints, lifecycle) is   *)
(* modelled from the documentation of the methods and from the design      *)
(* specification.                                                          *)
(***************************************************************************)
EXTENDS Integers, Sequences, FiniteSets, TLC

Txns == {"T1", "T2", "T3"}
Clients == {"T1", "T2"}     \* the transactions of the general workload
Solo == {"T1"}            \* the transaction of the savepoint workload
Keys == {"k1", "k2"}

\* The operand each transaction writes with put and merge.
Operand(t) == IF t = "T1" THEN <<"a">> ELSE IF t = "T2" THEN <<"b">> ELSE <<"c">>

\* Bounds of the model.
MaxCalls == 2        \* put/delete/merge/get_for_update calls of a workload
MaxLockCalls == 4    \* get_for_update calls of the locking workload
MaxSavepoints == 2   \* savepoints set at one time
MaxWrites == 4       \* put calls of the write-locking workload

VARIABLES
    mode,       \* "optimistic" (OptimisticTransactionDB) or "pessimistic" (TransactionDB)
    snap,       \* the snapshot each transaction was begun with, or NoSnapshot
    freed,      \* rocksdb_transaction_destroy calls made on the handle of each transaction
    store,      \* committed value of each key; <<>> is "absent"
    ver,        \* sequence number of the last commit that wrote each key
    seq,        \* latest commit sequence number
    obj,        \* the Rust object of each transaction: "unborn", "live", "gone"
    st,         \* engine lifecycle: "None", "Active", "Committed", "RolledBack"
    buf,        \* write batch of each transaction: sequence of entries
    sp,         \* savepoint stack of each transaction
    tracked,    \* optimistic conflict records: key -> sequence number, -1 untracked
    locks,      \* pessimistic lock records of each transaction, in acquisition order
    waiting,    \* the lock request a transaction is blocked in, or NoWait
    ncalls,     \* put/delete/merge/get_for_update calls the engine has accepted
    res         \* the last call, if it returned an error or undid a savepoint

vars == <<mode, snap, freed, store, ver, seq, obj, st, buf, sp, tracked, locks, waiting,
          ncalls, res>>

----------------------------------------------------------------------------
\* Values returned to the caller: Result<(), Error> and
\* Result<Option<DBVector>, Error>.

Absent == <<>>
Ok == [kind |-> "Ok", err |-> "", val |-> <<>>]
Some(v) == [kind |-> "Some", err |-> "", val |-> v]
NoneVal == [kind |-> "None", err |-> "", val |-> <<>>]
Err(e) == [kind |-> "Err", err |-> e, val |-> <<>>]

\* if val_ptr.is_null() { Ok(None) } else { Ok(Some(val)) }
OptionOf(v) == IF v = Absent THEN NoneVal ELSE Some(v)

Entry(k, op, v) == [key |-> k, op |-> op, val |-> v]
NoWait == [key |-> "", excl |-> FALSE, op |-> "", val |-> <<>>]
Call(t, op, k, out) == [t |-> t, op |-> op, key |-> k, out |-> out]
NoError == Call("", "", "", Ok)

\* A snapshot: the sequence number it was taken at and what committed storage
\* held then.  NoSnapshot is the null snapshot of a transaction begun without
\* one.
Snapshot(n, s) == [seq |-> n, at |-> s]
NoSnapshot == [seq |-> -1, at |-> <<>>]

\* What `res` keeps of a call that returned `out`: an error, with the call
\* that got it; a call that succeeds clears it.
Returned(t, op, k, out) == IF out.kind = "Err" THEN Call(t, op, k, out) ELSE NoError

----------------------------------------------------------------------------
\* The write batch.

\* A scan from the head of the batch: the oldest entry for k.
RECURSIVE GetFromBatch_oldest(_, _)
GetFromBatch_oldest(b, k) ==
    IF b = <<>> THEN Entry(k, "", <<>>)
    ELSE IF Head(b).key = k THEN Head(b)
    ELSE GetFromBatch_oldest(Tail(b), k)

\* The most recent entry of batch b for key k, or an entry with op "" when
\* the batch has none ("defer to storage").
RECURSIVE GetFromBatch(_, _)
GetFromBatch(b, k) ==
    IF b = <<>> THEN Entry(k, "", <<>>)
    ELSE IF b[Len(b)].key = k THEN b[Len(b)]
    ELSE GetFromBatch(SubSeq(b, 1, Len(b) - 1), k)

\* The merge operator: appends the operand to the existing value.
MergeOp(existing, operand) == existing \o operand

ApplyEntry(s, e) ==
    [s EXCEPT ![e.key] = CASE e.op = "put" -> e.val
                           [] e.op = "delete" -> Absent
                           [] OTHER -> MergeOp(s[e.key], e.val)]

\* Only the first entry of the batch reaches storage.
ApplyBatch_first(s, b) == IF b = <<>> THEN s ELSE ApplyEntry(s, Head(b))

\* Storage after every entry of batch b is applied, in order.
RECURSIVE ApplyBatch(_, _)
ApplyBatch(s, b) ==
    IF b = <<>> THEN s ELSE ApplyBatch(ApplyEntry(s, Head(b)), Tail(b))

BatchKeys(b) == {b[i].key : i \in DOMAIN b}

----------------------------------------------------------------------------
\* The lock table (pessimistic mode).

HoldsAny(t, k) == \E i \in DOMAIN locks[t] : locks[t][i].key = k
HoldsExcl(t, k) == \E i \in DOMAIN locks[t] : locks[t][i].key = k /\ locks[t][i].excl

\* The transactions whose lock on k is incompatible with t's request.
Blockers(t, k, excl) ==
    {u \in Txns \ {t} : HoldsAny(u, k) /\ (excl \/ HoldsExcl(u, k))}

CanGrant(t, k, excl) == Blockers(t, k, excl) = {}

AddLock(t, k, excl) ==
    IF HoldsExcl(t, k) \/ (~excl /\ HoldsAny(t, k)) THEN locks[t]
    ELSE Append(locks[t], [key |-> k, excl |-> excl])

\* u waits for a lock that w holds.
WaitsFor(u, w) ==
    /\ waiting[u] # NoWait
    /\ w \in Blockers(u, waiting[u].key, waiting[u].excl)

\* Blocking t on (k, excl) would close a cycle of the wait-for graph.
WouldDeadlock(t, k, excl) ==
    \E b \in Blockers(t, k, excl) :
        \/ WaitsFor(b, t)
        \/ \E c \in Txns \ {t, b} : WaitsFor(b, c) /\ WaitsFor(c, t)

----------------------------------------------------------------------------
Init ==
    /\ mode \in {"optimistic", "pessimistic"}
    /\ snap = [t \in Txns |-> NoSnapshot]
    /\ freed = [t \in Txns |-> 0]
    /\ store = [k \in Keys |-> IF k = "k1" THEN <<"s">> ELSE Absent]
    /\ ver = [k \in Keys |-> 0]
    /\ seq = 0
    /\ obj = [t \in Txns |-> "unborn"]
    /\ st = [t \in Txns |-> "None"]
    /\ buf = [t \in Txns |-> <<>>]
    /\ sp = [t \in Txns |-> <<>>]
    /\ tracked = [t \in Txns |-> [k \in Keys |-> -1]]
    /\ locks = [t \in Txns |-> <<>>]
    /\ waiting = [t \in Txns |-> NoWait]
    /\ ncalls = 0
    /\ res = NoError

\* The caller can invoke a method on t: it owns the object and is not
\* blocked inside another call on it.
Callable(t) == obj[t] = "live" /\ waiting[t] = NoWait

\* begin-transaction of the database.
begin(t) ==
    /\ obj[t] = "unborn"
    /\ obj' = [obj EXCEPT ![t] = "live"]
    /\ st' = [st EXCEPT ![t] = "Active"]
    /\ res' = NoError
    /\ UNCHANGED <<mode, snap, freed, store, ver, seq, buf, sp, tracked, locks, waiting, ncalls>>

\* begin-transaction with the snapshot option set: the transaction takes
\* a snapshot of committed storage as it is now.
begin_snapshot(t) ==
    /\ obj[t] = "unborn"
    /\ obj' = [obj EXCEPT ![t] = "live"]
    /\ st' = [st EXCEPT ![t] = "Active"]
    /\ snap' = [snap EXCEPT ![t] = Snapshot(seq, store)]
    /\ res' = NoError
    /\ UNCHANGED <<mode, freed, store, ver, seq, buf, sp, tracked, locks, waiting, ncalls>>

----------------------------------------------------------------------------
\* Reads.

\* The read resolves the pending merge against storage and returns a value.
TransactionGet_resolves(t, k) ==
    LET e == GetFromBatch(buf[t], k) IN
    IF st[t] # "Active" THEN Err("InvalidState")
    ELSE IF e.op = "put" THEN OptionOf(e.val)
    ELSE IF e.op = "delete" THEN NoneVal
    ELSE IF e.op = "merge" THEN OptionOf(MergeOp(store[k], e.val))
    ELSE OptionOf(store[k])

\* rocksdb_transaction_get: pending changes of this transaction first,
\* MergeInProgress when the most recent write to the key is a Merge.
TransactionGet(t, k) ==
    LET e == GetFromBatch(buf[t], k) IN
    IF st[t] # "Active" THEN Err("InvalidState")
    ELSE IF e.op = "put" THEN OptionOf(e.val)
    ELSE IF e.op = "delete" THEN NoneVal
    ELSE IF e.op = "merge" THEN Err("MergeInProgress")
    ELSE OptionOf(store[k])

\* get / get_opt: a read; the caller receives TransactionGet(t, k).
get(t, k) ==
    /\ Callable(t)
    /\ res' = Returned(t, "get", k, TransactionGet(t, k))
    /\ UNCHANGED <<mode, snap, freed, store, ver, seq, obj, st, buf, sp, tracked, locks,
                   waiting, ncalls>>

\* The read options of a call: "default" (ReadOptions::default(), no
\* snapshot), or "snapshot", read options that were given snapshot(), the
\* snapshot associated with the transaction.
ReadOptions == {"default", "snapshot"}

\* The read is served from the latest committed state whatever the read
\* options hold.
TransactionGetOpt_latest(t, k, readopts) ==
    LET e == GetFromBatch(buf[t], k) IN
    IF st[t] # "Active" THEN Err("InvalidState")
    ELSE IF e.op = "put" THEN OptionOf(e.val)
    ELSE IF e.op = "delete" THEN NoneVal
    ELSE IF e.op = "merge" THEN Err("MergeInProgress")
    ELSE OptionOf(store[k])

\* rocksdb_transaction_get(inner, readopts, key): pending changes of this
\* transaction first, then the database at the snapshot of the read
\* options; the null snapshot of a transaction begun without one "doesn't
\* effect read operations", and neither do read options without a snapshot.
TransactionGetOpt(t, k, readopts) ==
    LET e == GetFromBatch(buf[t], k)
        view == IF readopts = "snapshot" /\ snap[t] # NoSnapshot
                THEN snap[t].at ELSE store
    IN
    IF st[t] # "Active" THEN Err("InvalidState")
    ELSE IF e.op = "put" THEN OptionOf(e.val)
    ELSE IF e.op = "delete" THEN NoneVal
    ELSE IF e.op = "merge" THEN Err("MergeInProgress")
    ELSE OptionOf(view[k])

\* get_opt(key, readopts), also reached through snapshot().get(key): the
\* caller receives TransactionGetOpt(t, k, readopts).  `res` keeps the call
\* with what it returned.
get_opt(t, k, readopts) ==
    /\ Callable(t)
    /\ res' = Call(t, "get_opt", k, TransactionGetOpt(t, k, readopts))
    /\ UNCHANGED <<mode, snap, freed, store, ver, seq, obj, st, buf, sp, tracked, locks,
                   waiting, ncalls>>

----------------------------------------------------------------------------
\* Iteration.

\* The keys in the order of the comparator (bytewise).
KeyOrder == <<"k1", "k2">>
Position(k) == CHOOSE i \in DOMAIN KeyOrder : KeyOrder[i] = k

\* The pairs a forward scan of s yields from position i on: the keys that
\* hold a value, in order.
RECURSIVE Pairs(_, _)
Pairs(s, i) ==
    IF i > Len(KeyOrder) THEN <<>>
    ELSE LET k == KeyOrder[i] IN
         (IF s[k] = Absent THEN <<>> ELSE <<[key |-> k, val |-> s[k]]>>)
             \o Pairs(s, i + 1)

\* The iterator reads the database and not the write batch.
Collect_storageOnly(t, from) == Pairs(store, Position(from))

\* What an iterator of t positioned at key `from` yields, to the end:
\* rocksdb_transaction_create_iterator gives an iterator over the database
\* with the pending changes of the transaction applied.
Collect(t, from) == Pairs(ApplyBatch(store, buf[t]), Position(from))

\* What `res` keeps of an iteration: the first pair, or None at the end.
Yielded(t, items) ==
    IF items = <<>> THEN Call(t, "iterator", "", NoneVal)
    ELSE Call(t, "iterator", Head(items).key, Some(Head(items).val))

\* The iterator yields what the database holds.
iterator_storageOnly(t, from) ==
    /\ Callable(t)
    /\ res' = Yielded(t, Collect_storageOnly(t, from))
    /\ UNCHANGED <<mode, snap, freed, store, ver, seq, obj, st, buf, sp, tracked, locks,
                   waiting, ncalls>>

\* iterator(mode): an iterator is created at the position the mode names
\* and the caller takes its first item.
iterator(t, from) ==
    /\ Callable(t)
    /\ res' = Yielded(t, Collect(t, from))
    /\ UNCHANGED <<mode, snap, freed, store, ver, seq, obj, st, buf, sp, tracked, locks,
                   waiting, ncalls>>

----------------------------------------------------------------------------

\* Operations that register with the conflict detector: put, delete, merge
\* and get_for_update.

\* A write replaces the pending entry of its key, the other entries kept.
RECURSIVE Overwrite(_, _)
Overwrite(b, e) ==
    IF b = <<>> THEN <<e>>
    ELSE IF Head(b).key = e.key THEN <<e>> \o Tail(b)
    ELSE <<Head(b)>> \o Overwrite(Tail(b), e)

\* A write is recorded at the end of the batch.
Record(b, e) == Append(b, e)

\* The sequence number a new conflict record of t starts from: that of the
\* snapshot if a snapshot is set in the transaction, else the current one.
TrackSeq(t) == IF snap[t] = NoSnapshot THEN seq ELSE snap[t].seq

\* k was written by a commit after the snapshot of t was taken.
Stale(t, k) == snap[t] # NoSnapshot /\ ver[k] > snap[t].seq

\* The engine performs operation op of t on k, its conflict registration
\* done: a write is recorded in the batch, a get_for_update reads.  In a
\* TransactionDB the key is validated against the snapshot once the lock is
\* there: a key written since the snapshot is a write conflict (Busy).
Perform(t, k, excl, op, v) ==
    IF mode = "pessimistic" /\ ~ HoldsAny(t, k) /\ Stale(t, k)
    THEN /\ res' = Returned(t, op, k, Err("Busy"))
         /\ UNCHANGED <<buf, tracked, locks>>
    ELSE /\ tracked' = IF mode = "optimistic" /\ tracked[t][k] = -1
                       THEN [tracked EXCEPT ![t][k] = TrackSeq(t)] ELSE tracked
         /\ locks' = IF mode = "pessimistic"
                     THEN [locks EXCEPT ![t] = AddLock(t, k, excl)] ELSE locks
         /\ IF op = "get_for_update"
            THEN /\ buf' = buf
                 /\ res' = Returned(t, op, k, TransactionGet(t, k))
            ELSE /\ buf' = [buf EXCEPT ![t] = Record(@, Entry(k, op, v))]
                 /\ res' = NoError

\* One call of put / delete / merge / get_for_update.
Request(t, k, excl, op, v) ==
    /\ Callable(t)
    /\ IF st[t] # "Active"
       THEN /\ res' = Returned(t, op, k, Err("InvalidState"))
            /\ UNCHANGED <<buf, tracked, locks, waiting, ncalls>>
       ELSE /\ ncalls' = ncalls + 1
            /\ IF mode = "optimistic" \/ CanGrant(t, k, excl)
               THEN /\ Perform(t, k, excl, op, v)
                    /\ UNCHANGED waiting
               ELSE IF WouldDeadlock(t, k, excl)
               THEN /\ res' = Returned(t, op, k, Err("Deadlock"))
                    /\ UNCHANGED <<buf, tracked, locks, waiting>>
               ELSE /\ waiting' = [waiting EXCEPT ![t] =
                                      [key |-> k, excl |-> excl, op |-> op, val |-> v]]
                    /\ res' = NoError
                    /\ UNCHANGED <<buf, tracked, locks>>
    /\ UNCHANGED <<mode, snap, freed, store, ver, seq, obj, st, sp>>

\* The write takes its lock shared.
put_shared(t, k, v) == Request(t, k, FALSE, "put", v)

\* The value goes straight to the database, not to the write batch.
put_unbuffered(t, k, v) ==
    /\ Callable(t)
    /\ st[t] = "Active"
    /\ store' = [store EXCEPT ![k] = v]
    /\ ncalls' = ncalls + 1
    /\ res' = NoError
    /\ UNCHANGED <<mode, snap, freed, ver, seq, obj, st, buf, sp, tracked, locks,
                   waiting>>

put(t, k, v) == Request(t, k, TRUE, "put", v)
delete(t, k) == Request(t, k, TRUE, "delete", <<>>)
merge(t, k, v) == Request(t, k, TRUE, "merge", v)
\* The exclusive flag is dropped: every lock is requested shared.
get_for_update_shared(t, k, exclusive) ==
    Request(t, k, FALSE, "get_for_update", <<>>)
\* The request blocks whenever its lock cannot be granted: no cycle check.
get_for_update_blocking(t, k, exclusive) ==
    /\ Callable(t)
    /\ IF st[t] # "Active"
       THEN /\ res' = Returned(t, "get_for_update", k, Err("InvalidState"))
            /\ UNCHANGED <<buf, tracked, locks, waiting, ncalls>>
       ELSE /\ ncalls' = ncalls + 1
            /\ IF mode = "optimistic" \/ CanGrant(t, k, exclusive)
               THEN /\ Perform(t, k, exclusive, "get_for_update", <<>>)
                    /\ UNCHANGED waiting
               ELSE /\ waiting' = [waiting EXCEPT ![t] =
                                      [key |-> k, excl |-> exclusive,
                                       op |-> "get_for_update", val |-> <<>>]]
                    /\ res' = NoError
                    /\ UNCHANGED <<buf, tracked, locks>>
    /\ UNCHANGED <<mode, snap, freed, store, ver, seq, obj, st, sp>>

get_for_update(t, k, exclusive) == Request(t, k, exclusive, "get_for_update", <<>>)

\* A blocked request is granted its lock and the call completes.
LockGranted(t) ==
    /\ waiting[t] # NoWait
    /\ CanGrant(t, waiting[t].key, waiting[t].excl)
    /\ Perform(t, waiting[t].key, waiting[t].excl, waiting[t].op, waiting[t].val)
    /\ waiting' = [waiting EXCEPT ![t] = NoWait]
    /\ UNCHANGED <<mode, snap, freed, store, ver, seq, obj, st, sp, ncalls>>

\* The lock timeout of a blocked request expires.
LockTimeout(t) ==
    /\ waiting[t] # NoWait
    /\ ~CanGrant(t, waiting[t].key, waiting[t].excl)
    /\ res' = Returned(t, waiting[t].op, waiting[t].key, Err("TimedOut"))
    /\ waiting' = [waiting EXCEPT ![t] = NoWait]
    /\ UNCHANGED <<mode, snap, freed, store, ver, seq, obj, st, buf, sp, tracked, locks, ncalls>>

----------------------------------------------------------------------------
\* Savepoints.

\* The savepoint is pushed whatever the state of the transaction.
set_savepoint_unchecked(t) ==
    /\ Callable(t)
    /\ sp' = [sp EXCEPT ![t] = Append(@, [L |-> Len(buf[t]),
                                          N |-> Len(locks[t]),
                                          pending |-> [k \in Keys |-> GetFromBatch(buf[t], k)]])]
    /\ res' = NoError
    /\ UNCHANGED <<mode, snap, freed, store, ver, seq, obj, st, buf, tracked, locks, waiting,
                   ncalls>>

\* The pending operation of every key in a write batch.
PendingOps(b) == [k \in Keys |-> GetFromBatch(b, k)]

\* A savepoint marks the length of the write batch (L) and of the lock list
\* (N).  The field pending is a history record kept for verification: the
\* pending operations at the time of the call.  No action reads it.
\* set_savepoint returns nothing: no status of the engine reaches the caller.
set_savepoint(t) ==
    /\ Callable(t)
    /\ sp' = IF st[t] = "Active"
             THEN [sp EXCEPT ![t] = Append(@, [L |-> Len(buf[t]),
                                               N |-> Len(locks[t]),
                                               pending |-> PendingOps(buf[t])])]
             ELSE sp
    /\ res' = NoError
    /\ UNCHANGED <<mode, snap, freed, store, ver, seq, obj, st, buf, tracked, locks, waiting,
                   ncalls>>

\* With no savepoint set the call succeeds and does nothing.
rollback_to_savepoint_lenient(t) ==
    /\ Callable(t)
    /\ st[t] = "Active"
    /\ buf' = [buf EXCEPT ![t] =
                  IF sp[t] = <<>> THEN @ ELSE SubSeq(@, 1, sp[t][Len(sp[t])].L)]
    /\ locks' = [locks EXCEPT ![t] =
                    IF sp[t] = <<>> THEN @ ELSE SubSeq(@, 1, sp[t][Len(sp[t])].N)]
    /\ sp' = [sp EXCEPT ![t] = IF @ = <<>> THEN @ ELSE SubSeq(@, 1, Len(@) - 1)]
    /\ res' = NoError
    /\ UNCHANGED <<mode, snap, freed, store, ver, seq, obj, st, tracked, waiting, ncalls>>

\* The rollback goes to the oldest savepoint and removes every savepoint.
rollback_to_savepoint_all(t) ==
    /\ Callable(t)
    /\ IF st[t] # "Active"
       THEN /\ res' = Returned(t, "rollback_to_savepoint", "", Err("InvalidState"))
            /\ UNCHANGED <<buf, locks, sp>>
       ELSE IF sp[t] = <<>>
       THEN /\ res' = Returned(t, "rollback_to_savepoint", "", Err("NoSavepoint"))
            /\ UNCHANGED <<buf, locks, sp>>
       ELSE LET oldest == sp[t][1] IN
            /\ buf' = [buf EXCEPT ![t] = SubSeq(@, 1, oldest.L)]
            /\ locks' = [locks EXCEPT ![t] = SubSeq(@, 1, oldest.N)]
            /\ sp' = [sp EXCEPT ![t] = <<>>]
            /\ res' = Call(t, "rollback_to_savepoint", "", Ok)
    /\ UNCHANGED <<mode, snap, freed, store, ver, seq, obj, st, tracked, waiting, ncalls>>

\* The write batch is cut back and the savepoint removed; the locks taken
\* since the savepoint stay in the lock table.
rollback_to_savepoint_keepsLocks(t) ==
    /\ Callable(t)
    /\ IF st[t] # "Active"
       THEN /\ res' = Returned(t, "rollback_to_savepoint", "", Err("InvalidState"))
            /\ UNCHANGED <<buf, locks, sp>>
       ELSE IF sp[t] = <<>>
       THEN /\ res' = Returned(t, "rollback_to_savepoint", "", Err("NoSavepoint"))
            /\ UNCHANGED <<buf, locks, sp>>
       ELSE LET top == sp[t][Len(sp[t])] IN
            /\ buf' = [buf EXCEPT ![t] = SubSeq(@, 1, top.L)]
            /\ locks' = locks
            /\ sp' = [sp EXCEPT ![t] = SubSeq(@, 1, Len(@) - 1)]
            /\ res' = Call(t, "rollback_to_savepoint", "", Ok)
    /\ UNCHANGED <<mode, snap, freed, store, ver, seq, obj, st, tracked, waiting, ncalls>>

\* Undo all operations since the most recent set_savepoint and remove it;
\* an error if there is none.
rollback_to_savepoint(t) ==
    /\ Callable(t)
    /\ IF st[t] # "Active"
       THEN /\ res' = Returned(t, "rollback_to_savepoint", "", Err("InvalidState"))
            /\ UNCHANGED <<buf, locks, sp>>
       ELSE IF sp[t] = <<>>
       THEN /\ res' = Returned(t, "rollback_to_savepoint", "", Err("NoSavepoint"))
            /\ UNCHANGED <<buf, locks, sp>>
       ELSE LET top == sp[t][Len(sp[t])] IN
            /\ buf' = [buf EXCEPT ![t] = SubSeq(@, 1, top.L)]
            /\ locks' = [locks EXCEPT ![t] = SubSeq(@, 1, top.N)]
            /\ sp' = [sp EXCEPT ![t] = SubSeq(@, 1, Len(@) - 1)]
            /\ res' = Call(t, "rollback_to_savepoint", "", Ok)
    /\ UNCHANGED <<mode, snap, freed, store, ver, seq, obj, st, tracked, waiting, ncalls>>

----------------------------------------------------------------------------
\* End of a transaction.

\* What the engine holds for t is discarded: batch, savepoints, conflict
\* records and locks.
Discard(t) ==
    /\ buf' = [buf EXCEPT ![t] = <<>>]
    /\ sp' = [sp EXCEPT ![t] = <<>>]
    /\ tracked' = [tracked EXCEPT ![t] = [k \in Keys |-> -1]]
    /\ locks' = [locks EXCEPT ![t] = <<>>]

\* The batch is discarded, the locks stay in the lock table.
rollback_keepsLocks(t) ==
    /\ Callable(t)
    /\ st[t] = "Active"
    /\ buf' = [buf EXCEPT ![t] = <<>>]
    /\ sp' = [sp EXCEPT ![t] = <<>>]
    /\ st' = [st EXCEPT ![t] = "RolledBack"]
    /\ res' = NoError
    /\ UNCHANGED <<mode, snap, freed, store, ver, seq, obj, tracked, locks, waiting, ncalls>>

\* The batch is written to the database instead of being discarded.
rollback_flushes(t) ==
    /\ Callable(t)
    /\ st[t] = "Active"
    /\ Discard(t)
    /\ store' = ApplyBatch(store, buf[t])
    /\ st' = [st EXCEPT ![t] = "RolledBack"]
    /\ res' = NoError
    /\ UNCHANGED <<mode, snap, freed, ver, seq, obj, waiting, ncalls>>

\* Discard all batched writes in this transaction.  The object stays with
\* the caller (&self).
rollback(t) ==
    /\ Callable(t)
    /\ IF st[t] # "Active"
       THEN /\ res' = Returned(t, "rollback", "", Err("InvalidState"))
            /\ UNCHANGED <<st, buf, sp, tracked, locks>>
       ELSE /\ Discard(t)
            /\ st' = [st EXCEPT ![t] = "RolledBack"]
            /\ res' = NoError
    /\ UNCHANGED <<mode, snap, freed, store, ver, seq, obj, waiting, ncalls>>

\* Conflict records are kept only for the keys t has written.
Records_written(t) == BatchKeys(buf[t])

\* The keys t holds a conflict record for.
Records(t) == {k \in Keys : tracked[t][k] # -1}

\* An optimistic commit that skips conflict validation.
CommitStatus_noValidation(t, late, flushed) ==
    IF st[t] # "Active" THEN Err("InvalidState")
    ELSE IF mode = "pessimistic" /\ late THEN Err("Expired")
    ELSE IF mode = "optimistic" /\ flushed THEN Err("TryAgain")
    ELSE Ok

\* The expiration time of the transaction is not looked at.
CommitStatus_ignoresLate(t, late, flushed) ==
    IF st[t] # "Active" THEN Err("InvalidState")
    ELSE IF mode = "pessimistic"
    THEN Ok
    ELSE IF \E k \in Records(t) : ver[k] > tracked[t][k]
    THEN Err("Busy")
    ELSE IF flushed
    THEN Err("TryAgain")
    ELSE Ok

\* The status of rocksdb_transaction_commit.  late: the transaction has
\* lived longer than its expiration time; flushed: the memtable history no
\* longer reaches back to the oldest conflict record.
CommitStatus(t, late, flushed) ==
    IF st[t] # "Active" THEN Err("InvalidState")
    ELSE IF mode = "pessimistic"
    THEN IF late THEN Err("Expired") ELSE Ok
    ELSE IF \E k \in Records(t) : ver[k] > tracked[t][k]
    THEN Err("Busy")
    ELSE IF flushed
    THEN Err("TryAgain")
    ELSE Ok

\* rocksdb_transaction_destroy(self.inner): one more release of the handle.
Destroy(t) == freed' = [freed EXCEPT ![t] = @ + 1]

\* Destroying the handle leaves the engine's transaction as it is.
Destroyed_keeps(s) == s

\* Lifecycle state the engine leaves t in once its handle is destroyed:
\* destroying an Active transaction is an implicit rollback.
Destroyed(s) == IF s = "Active" THEN "RolledBack" ELSE s

\* The commit of a transaction taken by reference: the object stays.
commit_borrowing(t, late, flushed) ==
    LET status == CommitStatus(t, late, flushed) IN
    /\ Callable(t)
    /\ late => mode = "pessimistic"
    /\ flushed => mode = "optimistic" /\ \E k \in Records(t) : tracked[t][k] < seq
    /\ IF status = Ok
       THEN /\ store' = ApplyBatch(store, buf[t])
            /\ seq' = seq + 1
            /\ ver' = [k \in Keys |-> IF k \in BatchKeys(buf[t]) THEN seq + 1 ELSE ver[k]]
            /\ st' = [st EXCEPT ![t] = "Committed"]
            /\ Discard(t)
       ELSE UNCHANGED <<store, seq, ver, st, buf, sp, tracked, locks>>
    /\ res' = Returned(t, "commit", "", status)
    /\ UNCHANGED <<mode, snap, freed, obj, waiting, ncalls>>

\* commit destroys the handle itself, and Drop destroys it again when the
\* object moved into the call goes out of scope.
commit_destroysTwice(t, late, flushed) ==
    LET status == CommitStatus(t, late, flushed) IN
    /\ Callable(t)
    /\ late => mode = "pessimistic"
    /\ flushed => mode = "optimistic" /\ \E k \in Records(t) : tracked[t][k] < seq
    /\ IF status = Ok
       THEN /\ store' = ApplyBatch(store, buf[t])
            /\ seq' = IF buf[t] = <<>> THEN seq ELSE seq + 1
            /\ ver' = [k \in Keys |-> IF k \in BatchKeys(buf[t]) THEN seq + 1 ELSE ver[k]]
            /\ st' = [st EXCEPT ![t] = "Committed"]
       ELSE /\ UNCHANGED <<store, seq, ver>>
            /\ st' = [st EXCEPT ![t] = Destroyed(@)]
    /\ Discard(t)
    /\ obj' = [obj EXCEPT ![t] = "gone"]
    /\ freed' = [freed EXCEPT ![t] = @ + 2]
    /\ res' = Returned(t, "commit", "", status)
    /\ UNCHANGED <<mode, snap, waiting, ncalls>>

\* commit(self): the engine commits, then the object, moved into the call,
\* is dropped whatever the status was.
commit(t, late, flushed) ==
    LET status == CommitStatus(t, late, flushed) IN
    /\ Callable(t)
    /\ late => mode = "pessimistic"
    /\ flushed => mode = "optimistic" /\ \E k \in Records(t) : tracked[t][k] < seq
    /\ IF status = Ok
       THEN /\ store' = ApplyBatch(store, buf[t])
            /\ seq' = IF buf[t] = <<>> THEN seq ELSE seq + 1
            /\ ver' = [k \in Keys |-> IF k \in BatchKeys(buf[t]) THEN seq + 1 ELSE ver[k]]
            /\ st' = [st EXCEPT ![t] = "Committed"]
       ELSE /\ UNCHANGED <<store, seq, ver>>
            /\ st' = [st EXCEPT ![t] = Destroyed(@)]
    /\ Discard(t)
    /\ obj' = [obj EXCEPT ![t] = "gone"]
    /\ Destroy(t)
    /\ res' = Returned(t, "commit", "", status)
    /\ UNCHANGED <<mode, snap, waiting, ncalls>>

\* The object goes and the engine's transaction is left behind with what it
\* holds.
drop_leaks(t) ==
    /\ Callable(t)
    /\ st' = [st EXCEPT ![t] = Destroyed(@)]
    /\ obj' = [obj EXCEPT ![t] = "gone"]
    /\ res' = NoError
    /\ UNCHANGED <<mode, snap, freed, store, ver, seq, buf, sp, tracked, locks, waiting, ncalls>>

\* Drop for Transaction: rocksdb_transaction_destroy(self.inner).
drop(t) ==
    /\ Callable(t)
    /\ Discard(t)
    /\ st' = [st EXCEPT ![t] = Destroyed(@)]
    /\ obj' = [obj EXCEPT ![t] = "gone"]
    /\ Destroy(t)
    /\ res' = NoError
    /\ UNCHANGED <<mode, snap, store, ver, seq, waiting, ncalls>>

----------------------------------------------------------------------------
\* The general workload: two transactions that read, write and end.

Next ==
    \/ \E t \in Clients : begin(t)
    \/ \E t \in Clients, k \in Keys : get(t, k)
    \/ \E t \in Clients, k \in Keys : ncalls < MaxCalls /\ put(t, k, Operand(t))
    \/ \E t \in Clients, k \in Keys : ncalls < MaxCalls /\ delete(t, k)
    \/ \E t \in Clients, k \in Keys : ncalls < MaxCalls /\ merge(t, k, Operand(t))
    \/ \E t \in Clients, k \in Keys, x \in BOOLEAN :
          ncalls < MaxCalls /\ get_for_update(t, k, x)
    \/ \E t \in Clients : LockGranted(t)
    \/ \E t \in Clients : LockTimeout(t)
    \/ \E t \in Clients : rollback(t)
    \/ \E t \in Clients, late, flushed \in BOOLEAN : commit(t, late, flushed)
    \/ \E t \in Clients : drop(t)

Spec == Init /\ [][Next]_vars

\* The savepoint workload: one transaction, every operation.

NextSavepoints ==
    \/ \E t \in Solo : begin(t)
    \/ \E t \in Solo, k \in Keys : get(t, k)
    \/ \E t \in Solo, k \in Keys : ncalls < MaxCalls /\ put(t, k, Operand(t))
    \/ \E t \in Solo, k \in Keys : ncalls < MaxCalls /\ delete(t, k)
    \/ \E t \in Solo, k \in Keys : ncalls < MaxCalls /\ merge(t, k, Operand(t))
    \/ \E t \in Solo, k \in Keys, x \in BOOLEAN :
          ncalls < MaxCalls /\ get_for_update(t, k, x)
    \/ \E t \in Solo : Len(sp[t]) < MaxSavepoints /\ set_savepoint(t)
    \/ \E t \in Solo : rollback_to_savepoint(t)
    \/ \E t \in Solo : rollback(t)
    \/ \E t \in Solo, late, flushed \in BOOLEAN : commit(t, late, flushed)
    \/ \E t \in Solo : drop(t)

SpecSavepoints == Init /\ [][NextSavepoints]_vars

\* The locking workload: three transactions of a TransactionDB that lock
\* keys with get_for_update and end.

InitLocks == Init /\ mode = "pessimistic"

NextLocks ==
    \/ \E t \in Txns : begin(t)
    \/ \E t \in Txns, k \in Keys, x \in BOOLEAN :
          ncalls < MaxLockCalls /\ get_for_update(t, k, x)
    \/ \E t \in Txns : LockGranted(t)
    \/ \E t \in Txns : LockTimeout(t)
    \/ \E t \in Txns : rollback(t)
    \/ \E t \in Txns : commit(t, FALSE, FALSE)
    \/ \E t \in Txns : drop(t)

SpecLocks == InitLocks /\ [][NextLocks]_vars

\* The engine grants a lock request that can be granted: a waiter is woken
\* when the lock it waits for is released.
FairSpecLocks == SpecLocks /\ \A t \in Txns : WF_vars(LockGranted(t))

\* The write-locking workload: two transactions of a TransactionDB that put
\* and end; the first also sets savepoints and rolls back to them.

NextWrites ==
    \/ \E t \in Clients : begin(t)
    \/ \E t \in Clients, k \in Keys : ncalls < MaxWrites /\ put(t, k, Operand(t))
    \/ \E t \in Solo : Len(sp[t]) < MaxSavepoints /\ set_savepoint(t)
    \/ \E t \in Solo : rollback_to_savepoint(t)
    \/ \E t \in Clients : LockGranted(t)
    \/ \E t \in Clients : LockTimeout(t)
    \/ \E t \in Clients : rollback(t)
    \/ \E t \in Clients : commit(t, FALSE, FALSE)
    \/ \E t \in Clients : drop(t)

SpecWrites == InitLocks /\ [][NextWrites]_vars

\* The snapshot workload: two transactions, begun with or without a
\* snapshot, that write, read with either read options and end.

NextSnapshot ==
    \/ \E t \in Clients : begin(t)
    \/ \E t \in Clients : begin_snapshot(t)
    \/ \E t \in Clients, k \in Keys : get(t, k)
    \/ \E t \in Clients, k \in Keys, o \in ReadOptions : get_opt(t, k, o)
    \/ \E t \in Clients, k \in Keys : ncalls < MaxCalls /\ put(t, k, Operand(t))
    \/ \E t \in Clients, k \in Keys : ncalls < MaxCalls /\ delete(t, k)
    \/ \E t \in Clients : LockGranted(t)
    \/ \E t \in Clients : LockTimeout(t)
    \/ \E t \in Clients : rollback(t)
    \/ \E t \in Clients : commit(t, FALSE, FALSE)
    \/ \E t \in Clients : drop(t)

SpecSnapshot == Init /\ [][NextSnapshot]_vars

\* The iteration workload: two transactions that write, iterate and end.

NextIter ==
    \/ \E t \in Clients : begin(t)
    \/ \E t \in Clients, k \in Keys : ncalls < MaxCalls /\ put(t, k, Operand(t))
    \/ \E t \in Clients, k \in Keys : ncalls < MaxCalls /\ delete(t, k)
    \/ \E t \in Clients, k \in Keys : ncalls < MaxCalls /\ merge(t, k, Operand(t))
    \/ \E t \in Clients, k \in Keys : iterator(t, k)
    \/ \E t \in Clients : LockGranted(t)
    \/ \E t \in Clients : LockTimeout(t)
    \/ \E t \in Clients : rollback(t)
    \/ \E t \in Clients : commit(t, FALSE, FALSE)
    \/ \E t \in Clients : drop(t)

SpecIter == Init /\ [][NextIter]_vars

\* The isolation workload: two transactions that write, read with get and
\* with iterators, and end.

NextIsolation ==
    \/ \E t \in Clients : begin(t)
    \/ \E t \in Clients, k \in Keys : get(t, k)
    \/ \E t \in Clients, k \in Keys : iterator(t, k)
    \/ \E t \in Clients, k \in Keys : ncalls < MaxCalls /\ put(t, k, Operand(t))
    \/ \E t \in Clients, k \in Keys : ncalls < MaxCalls /\ delete(t, k)
    \/ \E t \in Clients, k \in Keys : ncalls < MaxCalls /\ merge(t, k, Operand(t))
    \/ \E t \in Clients : LockGranted(t)
    \/ \E t \in Clients : LockTimeout(t)
    \/ \E t \in Clients : rollback(t)
    \/ \E t \in Clients : commit(t, FALSE, FALSE)
    \/ \E t \in Clients : drop(t)

SpecIsolation == Init /\ [][NextIsolation]_vars

----------------------------------------------------------------------------
\* Properties.

\* The step in which t's commit call returns: the object is consumed, and
\* either the transaction is committed or the call's error is recorded.
CommitStep(t) ==
    /\ obj[t] = "live"
    /\ obj'[t] = "gone"
    /\ \/ st'[t] = "Committed"
       \/ res'.t = t /\ res'.op = "commit"

\* What get must return for a key whose most recent pending operation is e.
NetEffect(e) ==
    CASE e.op = "put" -> Some(e.val)
      [] e.op = "delete" -> NoneVal
      [] e.op = "merge" -> Err("MergeInProgress")

\* The position in b of the most recently issued operation on k.
LastIndex(b, k) ==
    CHOOSE i \in DOMAIN b :
        b[i].key = k /\ \A j \in DOMAIN b : j > i => b[j].key # k

\* The value of k in storage after the entries of b are applied in order.
RECURSIVE Effect(_, _, _)
Effect(v, b, k) ==
    IF b = <<>> THEN v
    ELSE LET e == b[Len(b)]
             front == SubSeq(b, 1, Len(b) - 1)
         IN  IF e.key # k THEN Effect(v, front, k)
             ELSE IF e.op = "put" THEN e.val
             ELSE IF e.op = "delete" THEN Absent
             ELSE MergeOp(Effect(v, front, k), e.val)

\* C1 as the specification states it: for every sequence of put, delete and
\* merge issued on K in an Active transaction, get(K) in that transaction
\* returns the net effect of the most recent of them: a value or absent,
\* what K would hold with the pending operations applied.
C1_AsStated ==
    \A t \in Txns, k \in Keys :
        (st[t] = "Active" /\ k \in BatchKeys(buf[t]))
            => TransactionGet(t, k) = OptionOf(Effect(store[k], buf[t], k))

\* C1, amended: read-your-writes.  For an Active transaction T and a key K
\* on which T has issued put, delete or merge, T.get(K) is decided by the
\* most recently issued of these operations alone: the put value after put,
\* absent after delete, and the error MergeInProgress after merge.  It is
\* never the value that committed storage holds for K.
C1_ReadYourWrites ==
    \A t \in Txns, k \in Keys :
        (st[t] = "Active" /\ k \in BatchKeys(buf[t]))
            => TransactionGet(t, k) = NetEffect(buf[t][LastIndex(buf[t], k)])

\* A transaction that deleted k1 and merged into k2 reads None for k1,
\* although committed storage holds a value for it, and gets
\* MergeInProgress for k2.
C1_Witness ==
    \E t \in Txns :
        /\ st[t] = "Active"
        /\ buf[t] = <<Entry("k1", "delete", <<>>), Entry("k2", "merge", Operand(t))>>
        /\ store["k1"] # Absent
        /\ TransactionGet(t, "k1") = NoneVal
        /\ TransactionGet(t, "k2") = Err("MergeInProgress")

\* B's commit can only fail with Busy: a write to a key B has read for
\* update or written was committed after B first touched the key.
Doomed(t) ==
    /\ mode = "optimistic"
    /\ st[t] = "Active"
    /\ \A flushed \in BOOLEAN : CommitStatus(t, FALSE, flushed) = Err("Busy")

\* No write to a key B touched has been committed since B touched it.
Unconflicted(t) ==
    /\ mode = "optimistic"
    /\ st[t] = "Active"
    /\ CommitStatus(t, FALSE, FALSE) = Ok

\* First committer wins: when A's commit succeeds while B is Active and both
\* wrote a common key, B's commit can from then on only fail with Busy, and
\* it leaves storage unchanged when it does.
FirstCommitterWins ==
    /\ \A a \in Txns : \A b \in Txns \ {a} :
           ( /\ mode = "optimistic"
             /\ CommitStep(a) /\ st'[a] = "Committed"
             /\ st[b] = "Active"
             /\ BatchKeys(buf[a]) \cap BatchKeys(buf[b]) # {} )
               => Doomed(b)'
    /\ \A b \in Txns :
           Doomed(b) =>
               /\ st'[b] = "Active" => Doomed(b)'
               /\ CommitStep(b) =>
                      /\ res' = Call(b, "commit", "", Err("Busy"))
                      /\ st'[b] # "Committed"
                      /\ store' = store

\* A commit by A that writes no key B has touched takes nothing from B.
DisjointCommitHarmless ==
    \A a \in Txns : \A b \in Txns \ {a} :
        ( /\ CommitStep(a)
          /\ Unconflicted(b)
          /\ BatchKeys(buf[a]) \cap Records(b) = {} )
            => Unconflicted(b)'

\* C2 as the specification states it: optimistic mode, first committer wins.
\* If A and B are concurrently Active and both wrote K, and A's commit
\* succeeds first, B's commit fails with Busy; if they touched only disjoint
\* keys, both commits succeed.
C2_AsStated ==
    [][ /\ FirstCommitterWins
        /\ DisjointCommitHarmless
        /\ \A b \in Txns :
               (Unconflicted(b) /\ CommitStep(b)) => st'[b] = "Committed" ]_vars

\* C2, amended: as above, but a commit that meets no conflicting write
\* either succeeds or fails with TryAgain, the status of an optimistic commit
\* whose memtable history no longer covers the keys to validate; it never
\* fails with Busy.
C2_FirstCommitterWins ==
    [][ /\ FirstCommitterWins
        /\ DisjointCommitHarmless
        /\ \A b \in Txns :
               (Unconflicted(b) /\ CommitStep(b)) =>
                   \/ st'[b] = "Committed"
                   \/ /\ res' = Call(b, "commit", "", Err("TryAgain"))
                      /\ store' = store ]_vars

\* T1 committed a write and T2, which wrote the same key, then failed to
\* commit with Busy.
C2_Witness ==
    /\ mode = "optimistic"
    /\ st["T1"] = "Committed"
    /\ store["k2"] = Operand("T1")
    /\ res = Call("T2", "commit", "", Err("Busy"))

\* C3: commit is all-or-nothing.  A successful commit applies every pending
\* operation of the transaction to committed storage in one step and the
\* transaction becomes Committed; a failing commit applies none of them;
\* storage changes in no other way.
C3_CommitAllOrNothing ==
    [][ /\ \A t \in Txns :
               CommitStep(t) =>
                   IF st'[t] = "Committed"
                   THEN /\ st[t] = "Active"
                        /\ res' = NoError
                        /\ \A k \in Keys :
                               store'[k] = Effect(store[k], buf[t], k)
                   ELSE /\ res'.out.kind = "Err"
                        /\ store' = store
        /\ store' # store =>
               \E t \in Txns : CommitStep(t) /\ st'[t] = "Committed" ]_vars

\* T1 committed a merge on k1 and a put on k2, and both are in storage.
C3_Witness ==
    /\ st["T1"] = "Committed"
    /\ store["k1"] = <<"s">> \o Operand("T1")
    /\ store["k2"] = Operand("T1")
    /\ ncalls = 2
    /\ obj["T2"] = "unborn"

\* The step in which t's rollback call succeeds.
RollbackStep(t) ==
    /\ st[t] = "Active"
    /\ st'[t] = "RolledBack"
    /\ obj'[t] = "live"

\* C4: rollback discards.  Committed storage changes only in the step of a
\* successful commit, so no call of a transaction that is rolled back in the
\* end has changed it; the rollback of an Active transaction leaves storage
\* exactly as it was, discards every pending operation and makes the
\* transaction RolledBack; it stays RolledBack, holds no pending operation
\* again, and no later step applies an operation of it to storage.
C4_RollbackDiscards ==
    [][ /\ (\A u \in Txns : st'[u] = "Committed" => st[u] = "Committed")
               => store' = store
        /\ \A t \in Txns :
            /\ RollbackStep(t) =>
                   /\ store' = store
                   /\ buf'[t] = <<>>
                   /\ res' = NoError
            /\ st[t] = "RolledBack" =>
                   /\ st'[t] = "RolledBack"
                   /\ buf'[t] = <<>>
                   /\ (obj[t] # obj'[t] \/ res'.t = t) => store' = store ]_vars

\* A transaction that is the only one begun rolled back two accepted writes
\* and storage is what it was at the start.
C4_Witness ==
    \E t \in Clients :
        /\ st[t] = "RolledBack"
        /\ obj[t] = "live"
        /\ ncalls = 2
        /\ tracked[t] = [k \in Keys |-> -1]
        /\ \A u \in Txns \ {t} : obj[u] = "unborn"
        /\ store = [k \in Keys |-> IF k = "k1" THEN <<"s">> ELSE Absent]

\* The step in which t's rollback_to_savepoint call succeeds.
RollbackToSavepointStep(t) ==
    /\ sp[t] # <<>>
    /\ res' = Call(t, "rollback_to_savepoint", "", Ok)

\* C5: savepoint restore.  After set_savepoint, any sequence of put, delete
\* and merge, and a successful rollback_to_savepoint, the pending operation
\* of every key is the one it was when set_savepoint was called: everything
\* issued after the savepoint is undone, nothing issued before it is lost.
C5_SavepointRestore ==
    [][ \A t \in Txns :
            RollbackToSavepointStep(t) =>
                LET top == sp[t][Len(sp[t])] IN
                /\ st'[t] = "Active"
                /\ sp'[t] = SubSeq(sp[t], 1, Len(sp[t]) - 1)
                /\ PendingOps(buf[t])' = top.pending
                /\ Len(buf'[t]) = top.L
                /\ \A k \in Keys \ BatchKeys(buf'[t]) :
                       TransactionGet(t, k)' = OptionOf(store[k])
                /\ \A k \in BatchKeys(buf'[t]) :
                       TransactionGet(t, k)' = NetEffect(top.pending[k])
                /\ store' = store ]_vars

\* A transaction put k1, set a savepoint, made a second call and rolled
\* back to the savepoint: the put of k1 is the one pending operation.
C5_Witness ==
    \E t \in Clients :
        /\ res = Call(t, "rollback_to_savepoint", "", Ok)
        /\ st[t] = "Active"
        /\ buf[t] = <<Entry("k1", "put", Operand(t))>>
        /\ TransactionGet(t, "k1") = Some(Operand(t))
        /\ ncalls = 2
        /\ sp[t] = <<>>
        /\ \A u \in Txns \ {t} : obj[u] = "unborn"

\* C6: rollback_to_savepoint with no savepoint.  On an Active transaction
\* whose savepoint stack is empty, every rollback_to_savepoint call returns
\* the error NoSavepoint and changes nothing; so does a second call after a
\* successful one that removed the only savepoint.
C6_NoSavepoint ==
    \A t \in Txns :
        (Callable(t) /\ st[t] = "Active" /\ sp[t] = <<>>) =>
            /\ ENABLED rollback_to_savepoint(t)
            /\ ~ ENABLED ( /\ rollback_to_savepoint(t)
                           /\ ~ /\ res' = Call(t, "rollback_to_savepoint", "",
                                                Err("NoSavepoint"))
                                /\ UNCHANGED <<mode, snap, freed, store, ver, seq, obj, st, buf,
                                               sp, tracked, locks, waiting>> )

\* A transaction took a lock, a successful rollback_to_savepoint released
\* it, and the next rollback_to_savepoint returned NoSavepoint.
C6_Witness ==
    \E t \in Clients :
        /\ res = Call(t, "rollback_to_savepoint", "", Err("NoSavepoint"))
        /\ st[t] = "Active"
        /\ mode = "pessimistic"
        /\ ncalls = 1
        /\ locks[t] = <<>>
        /\ sp[t] = <<>>
        /\ \A u \in Txns \ {t} : obj[u] = "unborn"

\* The transactions that hold a lock on k, and those that hold it
\* exclusively.
Holders(k) == {t \in Txns : HoldsAny(t, k)}
ExclHolders(k) == {t \in Txns : HoldsExcl(t, k)}

\* t holds the lock on k exclusively and nobody else holds it.
OnlyHolder(t, k) ==
    /\ HoldsExcl(t, k)
    /\ \A u \in Txns \ {t} : ~ HoldsAny(u, k)

\* Every transaction other than t has ended.
OthersEnded(t) == \A u \in Txns \ {t} : st[u] \in {"Committed", "RolledBack"}

\* While t1 holds k exclusively nobody else holds k and no exclusive
\* get_for_update of another transaction on k is granted; once everybody
\* else has ended, a get_for_update(k, exclusive) of t2 is granted in the
\* call and makes t2 the only holder.
ExclusiveLockSafety ==
    \A t2 \in Txns, k \in Keys :
        /\ \A t1 \in Txns \ {t2} :
               HoldsExcl(t1, k) =>
                   /\ ~ HoldsAny(t2, k)
                   /\ ~ ENABLED ( /\ get_for_update(t2, k, TRUE)
                                  /\ HoldsAny(t2, k)' )
        /\ ( /\ mode = "pessimistic"
             /\ Callable(t2) /\ st[t2] = "Active"
             /\ OthersEnded(t2) ) =>
               ~ ENABLED ( /\ get_for_update(t2, k, TRUE)
                           /\ ~ OnlyHolder(t2, k)' )

\* C7: pessimistic mode, exclusive lock.  While T1 holds an exclusive lock
\* on K, get_for_update(K, exclusive) by another transaction T2 is not
\* granted.  Once T1 has ended by commit, rollback or drop, a pending
\* request of T2 is eventually granted, a repeated one is granted at once,
\* and T2 is then the only holder: no lock record of T1 remains on K.
C7_ExclusiveLock ==
    /\ [] ExclusiveLockSafety
    /\ \A t2 \in Txns, k \in Keys :
           ( /\ waiting[t2] # NoWait
             /\ waiting[t2].key = k
             /\ waiting[t2].excl
             /\ OthersEnded(t2) )
               ~> OnlyHolder(t2, k)

\* T2 waits in an exclusive get_for_update of k1; the others have ended,
\* and the one that held k1 holds it no more.
C7_Witness ==
    /\ waiting["T2"] = [key |-> "k1", excl |-> TRUE, op |-> "get_for_update",
                        val |-> <<>>]
    /\ OthersEnded("T2")
    /\ Holders("k1") = {}

engine == <<mode, snap, store, ver, seq, st, buf, sp, tracked, locks, waiting, ncalls>>

\* Some call on the object of t can be made.
Usable(t) ==
    \/ ENABLED (\E late, flushed \in BOOLEAN : commit(t, late, flushed))
    \/ ENABLED rollback(t)
    \/ ENABLED rollback_to_savepoint(t)
    \/ ENABLED set_savepoint(t)
    \/ ENABLED drop(t)
    \/ \E k \in Keys :
           \/ ENABLED get(t, k)
           \/ ENABLED put(t, k, Operand(t))
           \/ ENABLED delete(t, k)
           \/ ENABLED merge(t, k, Operand(t))
           \/ \E x \in BOOLEAN : ENABLED get_for_update(t, k, x)

\* C9 as the specification states it: after a commit() has been invoked on
\* a transaction, a second commit() on the same transaction returns the
\* InvalidState error and applies nothing to storage.
C9_AsStated ==
    \A t \in Txns :
        st[t] = "Committed" =>
            ENABLED ( /\ \E late, flushed \in BOOLEAN : commit(t, late, flushed)
                      /\ res' = Call(t, "commit", "", Err("InvalidState"))
                      /\ store' = store )

\* C9, amended: commit takes the transaction by value.  Every commit call,
\* whatever it returns, consumes the object, so that no second commit, nor
\* any other call, can be made on a transaction on which commit has been
\* invoked; what the call has left of the transaction in the engine is
\* destroyed, and nothing of it reaches storage afterwards.
C9_CommitConsumes ==
    \A t \in Txns :
        /\ ~ ENABLED ( /\ \E late, flushed \in BOOLEAN : commit(t, late, flushed)
                       /\ ~ /\ obj'[t] = "gone"
                            /\ st'[t] \in {"Committed", "RolledBack"}
                            /\ buf'[t] = <<>> /\ locks'[t] = <<>> /\ sp'[t] = <<>> )
        /\ obj[t] = "gone" =>
               /\ ~ Usable(t)
               /\ st[t] \in {"Committed", "RolledBack"}
               /\ buf[t] = <<>> /\ locks[t] = <<>> /\ sp[t] = <<>>
               /\ ~ ENABLED (Next /\ obj'[t] # "gone")

\* T1 has committed a write: its object is gone.
C9_Witness ==
    /\ st["T1"] = "Committed"
    /\ obj["T1"] = "gone"
    /\ store["k2"] = Operand("T1")

\* The calls of C10 other than set_savepoint, on a transaction that is not
\* Active: each returns InvalidState and changes nothing in the engine.
RefusedWhenTerminal(t) ==
    /\ \A k \in Keys :
           /\ ~ ENABLED ( /\ get(t, k)
                          /\ ~ /\ res' = Call(t, "get", k, Err("InvalidState"))
                               /\ UNCHANGED engine )
           /\ ~ ENABLED ( /\ put(t, k, Operand(t))
                          /\ ~ /\ res' = Call(t, "put", k, Err("InvalidState"))
                               /\ UNCHANGED engine )
           /\ ~ ENABLED ( /\ delete(t, k)
                          /\ ~ /\ res' = Call(t, "delete", k, Err("InvalidState"))
                               /\ UNCHANGED engine )
           /\ ~ ENABLED ( /\ merge(t, k, Operand(t))
                          /\ ~ /\ res' = Call(t, "merge", k, Err("InvalidState"))
                               /\ UNCHANGED engine )
           /\ \A x \in BOOLEAN :
                  ~ ENABLED ( /\ get_for_update(t, k, x)
                              /\ ~ /\ res' = Call(t, "get_for_update", k,
                                                  Err("InvalidState"))
                                   /\ UNCHANGED engine )
    /\ ~ ENABLED ( /\ rollback_to_savepoint(t)
                   /\ ~ /\ res' = Call(t, "rollback_to_savepoint", "",
                                       Err("InvalidState"))
                        /\ UNCHANGED engine )
    /\ ~ ENABLED ( /\ rollback(t)
                   /\ ~ /\ res' = Call(t, "rollback", "", Err("InvalidState"))
                        /\ UNCHANGED engine )
    /\ ~ ENABLED ( /\ \E late, flushed \in BOOLEAN : commit(t, late, flushed)
                   /\ ~ /\ res' = Call(t, "commit", "", Err("InvalidState"))
                        /\ UNCHANGED engine )

\* C10 as the specification states it: once a transaction is Committed or
\* RolledBack, every get, get_for_update, put, delete, merge, set_savepoint,
\* rollback_to_savepoint, rollback or commit made on it signals
\* InvalidState, changes no buffer or lock state and writes nothing to
\* storage.
C10_AsStated ==
    \A t \in Txns :
        (st[t] \in {"Committed", "RolledBack"} /\ Callable(t)) =>
            /\ RefusedWhenTerminal(t)
            /\ ~ ENABLED ( /\ set_savepoint(t)
                           /\ ~ /\ res' = Call(t, "set_savepoint", "",
                                               Err("InvalidState"))
                                /\ UNCHANGED engine )

\* C10, amended: a Committed or RolledBack transaction stays so.  On a
\* RolledBack transaction, whose object rollback leaves usable, every get,
\* get_for_update, put, delete, merge, rollback_to_savepoint, rollback or
\* commit signals InvalidState, and set_savepoint, which returns nothing,
\* signals nothing; none of them changes buffer, savepoints, locks or
\* storage.  On a Committed transaction no call can be made: commit has
\* consumed the object.
C10_TerminalAbsorbing ==
    \A t \in Txns :
        /\ st[t] \in {"Committed", "RolledBack"} =>
               /\ ~ ENABLED (NextSavepoints /\ st'[t] # st[t])
               /\ buf[t] = <<>> /\ locks[t] = <<>> /\ sp[t] = <<>>
        /\ st[t] = "Committed" => obj[t] = "gone" /\ ~ Usable(t)
        /\ (st[t] = "RolledBack" /\ Callable(t)) =>
               /\ RefusedWhenTerminal(t)
               /\ ENABLED set_savepoint(t)
               /\ ~ ENABLED ( /\ set_savepoint(t)
                              /\ ~ /\ res' = NoError
                                   /\ UNCHANGED engine )

\* A put on the rolled-back transaction T1 has returned InvalidState.
C10_Witness ==
    /\ st["T1"] = "RolledBack"
    /\ obj["T1"] = "live"
    /\ res = Call("T1", "put", "k1", Err("InvalidState"))

\* The failures of commit that C11 is about.
CommitFailures == {Err("Busy"), Err("TryAgain"), Err("Expired")}

Ended(t) == st[t] \in {"Committed", "RolledBack"} \/ obj[t] = "gone"

\* C12: drop is an implicit rollback.  Dropping an Active transaction that
\* was neither committed nor rolled back leaves committed storage as it was,
\* discards its buffered writes, savepoints and conflict records, releases
\* every lock it held and leaves it RolledBack; in every reachable state a
\* transaction that has been committed, rolled back or dropped holds no lock
\* and no buffered write.
C12_DropRollsBack ==
    \A t \in Txns :
        /\ Ended(t) => locks[t] = <<>> /\ buf[t] = <<>> /\ Records(t) = {}
        /\ (Callable(t) /\ st[t] = "Active") =>
               /\ ENABLED drop(t)
               /\ ~ ENABLED ( /\ drop(t)
                              /\ ~ /\ store' = store
                                   /\ st'[t] = "RolledBack"
                                   /\ obj'[t] = "gone"
                                   /\ buf'[t] = <<>> /\ sp'[t] = <<>>
                                   /\ locks'[t] = <<>>
                                   /\ Records(t)' = {}
                                   /\ \A u \in Txns \ {t} :
                                          /\ locks'[u] = locks[u]
                                          /\ buf'[u] = buf[u]
                                          /\ st'[u] = st[u] )

\* T2 is blocked in a put of k1, which T1 had locked; T1's object is gone
\* without a commit, nothing of T1 reached storage and k1 is free.
C12_Witness ==
    /\ waiting["T2"] = [key |-> "k1", excl |-> TRUE, op |-> "put",
                        val |-> Operand("T2")]
    /\ obj["T1"] = "gone"
    /\ st["T1"] = "RolledBack"
    /\ res = NoError
    /\ Holders("k1") = {}
    /\ store = [k \in Keys |-> IF k = "k1" THEN <<"s">> ELSE Absent]

\* C13: in an Active transaction, get and get_for_update on a key whose most
\* recent pending operation in the write buffer is a Merge return the error
\* MergeInProgress to the caller, never a value; the transaction stays
\* Active and its write buffer is unchanged.
C13_MergeInProgress ==
    \A t \in Txns, k \in Keys :
        (Callable(t) /\ st[t] = "Active" /\ GetFromBatch(buf[t], k).op = "merge") =>
            /\ ENABLED get(t, k)
            /\ ~ ENABLED ( /\ get(t, k)
                           /\ ~ /\ res' = Call(t, "get", k, Err("MergeInProgress"))
                                /\ st'[t] = "Active"
                                /\ buf' = buf )
            /\ \A x \in BOOLEAN :
                  /\ ENABLED get_for_update(t, k, x)
                  /\ ~ ENABLED ( /\ get_for_update(t, k, x)
                                 /\ ~ /\ res' = Call(t, "get_for_update", k,
                                                     Err("MergeInProgress"))
                                      /\ waiting'[t] = NoWait
                                      /\ st'[t] = "Active"
                                      /\ buf' = buf )

\* T1 put k1 and then merged into it; its read of k1 returned
\* MergeInProgress, and T1 is Active with both writes in its buffer.
C13_Witness ==
    /\ res = Call("T1", "get", "k1", Err("MergeInProgress"))
    /\ st["T1"] = "Active"
    /\ buf["T1"] = <<Entry("k1", "put", <<"a">>), Entry("k1", "merge", <<"a">>)>>

\* C14: optimistic mode.  get_for_update(K) creates a conflict record for K
\* at its first call and later calls keep it; when another transaction
\* commits a write to K while T is Active with that record, T's commit can
\* from then on only fail with Busy and applies nothing, also when T wrote
\* nothing to K.  A plain get(K) creates no record, and without a record
\* no commit fails with Busy.
C14_GetForUpdateValidates ==
    mode = "optimistic" =>
        \A t \in Txns :
            (Callable(t) /\ st[t] = "Active") =>
                /\ \A k \in Keys :
                      /\ \A x \in BOOLEAN :
                            ~ ENABLED ( /\ get_for_update(t, k, x)
                                        /\ ~ /\ k \in Records(t)'
                                             /\ tracked'[t][k] =
                                                   IF tracked[t][k] = -1 THEN seq
                                                   ELSE tracked[t][k] )
                      /\ ~ ENABLED (get(t, k) /\ Records(t)' # Records(t))
                      /\ \A a \in Txns \ {t} :
                            (Callable(a) /\ k \in Records(t) /\ k \in BatchKeys(buf[a])) =>
                                ~ ENABLED ( /\ commit(a, FALSE, FALSE)
                                            /\ st'[a] = "Committed"
                                            /\ ~ Doomed(t)' )
                /\ Doomed(t) =>
                      /\ ~ ENABLED (Next /\ st'[t] = "Active" /\ ~ Doomed(t)')
                      /\ ~ ENABLED ( /\ \E flushed \in BOOLEAN : commit(t, FALSE, flushed)
                                     /\ ~ /\ res' = Call(t, "commit", "", Err("Busy"))
                                          /\ st'[t] # "Committed"
                                          /\ store' = store )
                /\ Records(t) = {} =>
                      ~ ENABLED ( /\ \E flushed \in BOOLEAN : commit(t, FALSE, flushed)
                                  /\ res'.out = Err("Busy") )

\* T2 read k1 for update and wrote nothing; T1 then committed a put of k1:
\* T2 is still Active and its commit can only fail with Busy.
C14_Witness ==
    /\ mode = "optimistic"
    /\ st["T2"] = "Active"
    /\ Callable("T2")
    /\ buf["T2"] = <<>>
    /\ Records("T2") = {"k1"}
    /\ st["T1"] = "Committed"
    /\ store["k1"] = <<"a">>
    /\ Doomed("T2")

\* t1 is Active with a put of k pending in its write buffer.
HasPut(t, k) == st[t] = "Active" /\ k \in BatchKeys(buf[t])

\* What holds of a put of k by t2 that is blocked behind t1: it is not
\* granted while t1 keeps its lock, and when its lock timeout expires the
\* call returns TimedOut and t2 is Active, with no entry for k in its write
\* buffer and no lock on k.
BlockedPut(t1, t2, k) ==
    (waiting[t2].op = "put" /\ waiting[t2].key = k /\ HasPut(t1, k)) =>
        /\ st[t2] = "Active"
        /\ ~ ENABLED LockGranted(t2)
        /\ ENABLED LockTimeout(t2)
        /\ ~ ENABLED ( /\ LockTimeout(t2)
                       /\ ~ /\ res' = Call(t2, "put", k, Err("TimedOut"))
                            /\ st'[t2] = "Active"
                            /\ waiting'[t2] = NoWait
                            /\ k \notin BatchKeys(buf'[t2])
                            /\ ~ HoldsAny(t2, k)'
                            /\ buf' = buf /\ locks' = locks )

\* C15 as the specification states it: pessimistic mode; after T1 put K1
\* and while it is Active, a put(K1) by T2 never succeeds: it either blocks
\* until T1 ends or fails with LockTimeout, and a LockTimeout leaves T2
\* Active with K1 absent from its write buffer and no lock on K1.
C15_AsStated ==
    \A t1 \in Txns : \A t2 \in Txns \ {t1} : \A k \in Keys :
        /\ (HasPut(t1, k) /\ Callable(t2) /\ st[t2] = "Active") =>
              ~ ENABLED ( /\ put(t2, k, Operand(t2))
                          /\ ~ /\ waiting'[t2].op = "put" /\ waiting'[t2].key = k
                               /\ res' = NoError
                               /\ buf' = buf /\ locks' = locks )
        /\ BlockedPut(t1, t2, k)

\* C15, amended: pessimistic mode.  No key has a pending put in the write
\* buffers of two Active transactions.  While T1 is Active with its put of
\* K1 pending (it has not ended and has not rolled back to a savepoint set
\* before the put), a put(K1) by T2 does not succeed: the call blocks, or it
\* fails at once with Deadlock when blocking would close a cycle of waits,
\* T2 staying Active with its buffer and locks as they were; a blocked put
\* is not granted while T1 keeps the put, and when its lock timeout expires
\* it fails with TimedOut (LockTimeout), T2 staying Active with K1 absent
\* from its write buffer and no lock on K1.
C15_WriteLocking ==
    \A t1 \in Txns : \A t2 \in Txns \ {t1} : \A k \in Keys :
        /\ ~ (HasPut(t1, k) /\ HasPut(t2, k))
        /\ (HasPut(t1, k) /\ Callable(t2) /\ st[t2] = "Active") =>
              /\ ENABLED put(t2, k, Operand(t2))
              /\ ~ ENABLED ( /\ put(t2, k, Operand(t2))
                             /\ ~ /\ \/ /\ waiting'[t2].op = "put"
                                        /\ waiting'[t2].key = k
                                        /\ res' = NoError
                                     \/ /\ WouldDeadlock(t2, k, TRUE)
                                        /\ res' = Call(t2, "put", k, Err("Deadlock"))
                                        /\ waiting'[t2] = NoWait
                                  /\ st'[t2] = "Active"
                                  /\ buf' = buf /\ locks' = locks )
        /\ BlockedPut(t1, t2, k)

\* T1 is Active with its put of k1 pending; T2's put of k1 blocked and
\* timed out: T2 is Active, has no entry for k1 and holds no lock on it.
C15_Witness ==
    /\ res = Call("T2", "put", "k1", Err("TimedOut"))
    /\ HasPut("T1", "k1")
    /\ st["T2"] = "Active"
    /\ waiting["T2"] = NoWait
    /\ "k1" \notin BatchKeys(buf["T2"])
    /\ ~ HoldsAny("T2", "k1")

\* There is a chain of at most n waits from a to b.
RECURSIVE WaitPath(_, _, _)
WaitPath(a, b, n) ==
    \/ WaitsFor(a, b)
    \/ n > 1 /\ \E c \in Txns \ {a} : WaitsFor(a, c) /\ WaitPath(c, b, n - 1)

\* The wait-for graph among blocked transactions has no cycle.
WaitForAcyclic == \A t \in Txns : ~ WaitPath(t, t, Cardinality(Txns))

\* Blocking t on (k, excl) would close a cycle: a transaction that blocks
\* the request waits, directly or through others, for t.
ClosesCycle(t, k, excl) ==
    \E b \in Blockers(t, k, excl) : WaitPath(b, t, Cardinality(Txns))

\* C16: pessimistic deadlock detection.  In every reachable state the
\* wait-for graph among blocked transactions is acyclic.  A lock request
\* that would close a cycle returns Deadlock without blocking; the
\* transaction that receives Deadlock stays Active and keeps the locks it
\* held, and no other transaction is affected.
C16_DeadlockDetection ==
    /\ WaitForAcyclic
    /\ \A t \in Txns, k \in Keys, x \in BOOLEAN :
           (Callable(t) /\ st[t] = "Active" /\ ClosesCycle(t, k, x)) =>
               /\ ENABLED get_for_update(t, k, x)
               /\ ~ ENABLED ( /\ get_for_update(t, k, x)
                              /\ ~ /\ res' = Call(t, "get_for_update", k, Err("Deadlock"))
                                   /\ waiting' = waiting
                                   /\ st' = st
                                   /\ locks' = locks
                                   /\ buf' = buf )

\* T1 holds k1 and is blocked on k2, which T2 holds; T2's request for k1
\* returned Deadlock: T2 is Active, not blocked, and still holds k2.
C16_Witness ==
    /\ res = Call("T2", "get_for_update", "k1", Err("Deadlock"))
    /\ st["T2"] = "Active"
    /\ waiting["T2"] = NoWait
    /\ HoldsAny("T2", "k2")
    /\ HoldsAny("T1", "k1")
    /\ WaitsFor("T1", "T2")
    /\ WaitForAcyclic

\* C17: pessimistic expiration.  The commit of a transaction that has lived
\* longer than its expiration time fails with Expired and applies none of
\* its writes; the transaction is rolled back and all its locks are
\* released: it blocks no lock request of another transaction any more,
\* and a request that waited for it alone can be granted.
C17_Expiration ==
    mode = "pessimistic" =>
        /\ \A t \in Txns :
              (Callable(t) /\ st[t] = "Active") =>
                  /\ ENABLED commit(t, TRUE, FALSE)
                  /\ ~ ENABLED ( /\ commit(t, TRUE, FALSE)
                                 /\ ~ /\ res' = Call(t, "commit", "", Err("Expired"))
                                      /\ store' = store /\ ver' = ver
                                      /\ st'[t] = "RolledBack"
                                      /\ locks'[t] = <<>>
                                      /\ \A u \in Txns \ {t} :
                                            /\ locks'[u] = locks[u]
                                            /\ \A k \in Keys, x \in BOOLEAN :
                                                  /\ t \notin Blockers(u, k, x)'
                                                  /\ Blockers(u, k, x) = {t}
                                                        => CanGrant(u, k, x)' )
        /\ \A u \in Txns :
              (waiting[u] # NoWait /\ CanGrant(u, waiting[u].key, waiting[u].excl))
                  => ENABLED LockGranted(u)

\* T1 locked k1 with a write and its commit failed with Expired; nothing
\* reached storage, T1 holds no lock, and T2's put of k1, which was blocked
\* behind T1, can be granted.
C17_Witness ==
    /\ res = Call("T1", "commit", "", Err("Expired"))
    /\ st["T1"] = "RolledBack"
    /\ locks["T1"] = <<>>
    /\ store = [k \in Keys |-> IF k = "k1" THEN <<"s">> ELSE Absent]
    /\ waiting["T2"] = [key |-> "k1", excl |-> TRUE, op |-> "put", val |-> <<"b">>]
    /\ CanGrant("T2", "k1", TRUE)
    /\ ENABLED LockGranted("T2")

\* Every savepoint of t marks a prefix of the write buffer that is still
\* there as it was recorded, and later savepoints mark longer prefixes.
SavepointsIntact(t) ==
    \A i \in DOMAIN sp[t] :
        /\ sp[t][i].L <= Len(buf[t])
        /\ PendingOps(SubSeq(buf[t], 1, sp[t][i].L)) = sp[t][i].pending
        /\ \A j \in DOMAIN sp[t] : j < i => sp[t][j].L <= sp[t][i].L

\* C18: savepoints form a LIFO stack.  set_savepoint on an Active
\* transaction pushes one savepoint and no other call pushes or removes
\* one except rollback_to_savepoint, which succeeds exactly when the stack
\* is not empty, so of n savepoints set exactly n rollbacks succeed.  A
\* successful rollback removes only the most recent savepoint and cuts the
\* write buffer back to the length that savepoint recorded: the writes made
\* before it, those between earlier savepoints included, stay as they were.
C18_SavepointStack ==
    \A t \in Txns :
        /\ SavepointsIntact(t)
        /\ (Callable(t) /\ st[t] = "Active") =>
              /\ ENABLED set_savepoint(t)
              /\ ~ ENABLED ( /\ set_savepoint(t)
                             /\ ~ /\ Len(sp'[t]) = Len(sp[t]) + 1
                                  /\ SubSeq(sp'[t], 1, Len(sp[t])) = sp[t]
                                  /\ sp'[t][Len(sp'[t])].L = Len(buf[t])
                                  /\ buf' = buf )
              /\ ~ ENABLED ( /\ \E k \in Keys, x \in BOOLEAN :
                                   \/ get(t, k)
                                   \/ put(t, k, Operand(t))
                                   \/ delete(t, k)
                                   \/ merge(t, k, Operand(t))
                                   \/ get_for_update(t, k, x)
                             /\ sp' # sp )
              /\ ENABLED rollback_to_savepoint(t)
              /\ ~ ENABLED ( /\ rollback_to_savepoint(t)
                             /\ ~ IF sp[t] = <<>>
                                  THEN res'.out.kind = "Err" /\ sp' = sp /\ buf' = buf
                                  ELSE /\ res' = Call(t, "rollback_to_savepoint", "", Ok)
                                       /\ sp'[t] = SubSeq(sp[t], 1, Len(sp[t]) - 1)
                                       /\ buf'[t] = SubSeq(buf[t], 1, sp[t][Len(sp[t])].L)
                                       /\ SavepointsIntact(t)'
                                       /\ st'[t] = "Active" )

\* T1 set a savepoint, put k1, set a second savepoint, put k2 and rolled
\* back: the second savepoint is gone, the first is left, and the put of
\* k1, made between the two, is still pending.
C18_Witness ==
    /\ res = Call("T1", "rollback_to_savepoint", "", Ok)
    /\ st["T1"] = "Active"
    /\ ncalls = 2
    /\ Len(sp["T1"]) = 1
    /\ sp["T1"][1].L = 0
    /\ buf["T1"] = <<Entry("k1", "put", <<"a">>)>>

LockedBeforeSavepoint(t, k) ==
    /\ sp[t] # <<>>
    /\ \E i \in 1..sp[t][Len(sp[t])].N : locks[t][i].key = k

\* t locked k, and only after it set its most recent savepoint.
LockedAfterSavepoint(t, k) ==
    /\ sp[t] # <<>>
    /\ HoldsAny(t, k)
    /\ ~ LockedBeforeSavepoint(t, k)

\* C20: pessimistic mode.  A successful rollback_to_savepoint releases
\* exactly the locks the transaction acquired after the savepoint was set
\* and keeps every lock acquired before it; the locks of other transactions
\* are untouched.  Afterwards a key locked only after the savepoint is free
\* for another transaction, whose put acquires it exclusively at once,
\* while a put on a key locked before the savepoint still cannot acquire it.
C20_SavepointLocks ==
    mode = "pessimistic" =>
        /\ \A t \in Txns :
              (Callable(t) /\ st[t] = "Active" /\ sp[t] # <<>>) =>
                  /\ sp[t][Len(sp[t])].N <= Len(locks[t])
                  /\ ENABLED rollback_to_savepoint(t)
                  /\ ~ ENABLED
                       ( /\ rollback_to_savepoint(t)
                         /\ ~ /\ res' = Call(t, "rollback_to_savepoint", "", Ok)
                              /\ locks'[t] = SubSeq(locks[t], 1, sp[t][Len(sp[t])].N)
                              /\ \A u \in Txns \ {t} : locks'[u] = locks[u]
                              /\ \A k \in Keys :
                                    /\ LockedAfterSavepoint(t, k) =>
                                          /\ ~ HoldsAny(t, k)'
                                          /\ \A u \in Txns \ {t} :
                                                Blockers(u, k, TRUE) = {t}
                                                    => CanGrant(u, k, TRUE)'
                                    /\ LockedBeforeSavepoint(t, k) =>
                                          /\ HoldsAny(t, k)'
                                          /\ \A u \in Txns \ {t} :
                                                ~ CanGrant(u, k, TRUE)' )
        /\ \A u \in Txns, k \in Keys :
              (Callable(u) /\ st[u] = "Active") =>
                  /\ ENABLED put(u, k, Operand(u))
                  /\ ~ ENABLED ( /\ put(u, k, Operand(u))
                                 /\ HoldsExcl(u, k)' # CanGrant(u, k, TRUE) )

\* T1 put k1, set a savepoint and put k2; T2's put of k2 blocked behind it.
\* T1 rolled back to the savepoint: it keeps k1 and has released k2, so
\* T2's put of k2 can be granted while a put of k1 could not.
C20_Witness ==
    /\ res = Call("T1", "rollback_to_savepoint", "", Ok)
    /\ st["T1"] = "Active"
    /\ sp["T1"] = <<>>
    /\ locks["T1"] = <<[key |-> "k1", excl |-> TRUE]>>
    /\ waiting["T2"] = [key |-> "k2", excl |-> TRUE, op |-> "put", val |-> <<"b">>]
    /\ CanGrant("T2", "k2", TRUE)
    /\ ENABLED LockGranted("T2")
    /\ ~ CanGrant("T2", "k1", TRUE)
    /\ ncalls = 3

\* t is Active and has no pending operation on k in its write buffer.
Unwritten(t, k) == st[t] = "Active" /\ GetFromBatch(buf[t], k).op = ""

\* C21 as the specification states it: for a transaction begun with a
\* snapshot, get(K) on a key with no pending operation in the write buffer
\* returns the value K had in committed storage at the snapshot, even after
\* another transaction has committed a newer value for K; for a transaction
\* without a snapshot it returns the latest committed value.
C21_AsStated ==
    \A t \in Txns, k \in Keys :
        Unwritten(t, k) =>
            TransactionGet(t, k) =
                IF snap[t] = NoSnapshot THEN OptionOf(store[k])
                ELSE OptionOf(snap[t].at[k])

\* C21, amended: get(K) reads with default read options, which hold no
\* snapshot: on a key with no pending operation in the write buffer it
\* returns the latest committed value of K, whether or not the transaction
\* was begun with a snapshot.  The value K had in committed storage when
\* the transaction was begun with a snapshot, whatever has been committed
\* since, is what a read given that snapshot returns: get_opt with read
\* options holding snapshot(), or snapshot().get(K).  The snapshot of a
\* transaction is fixed at begin and no call changes it; for a transaction
\* without a snapshot every read returns the latest committed value.
C21_SnapshotReads ==
    /\ \A t \in Txns :
          /\ obj[t] = "unborn" =>
                 ~ ENABLED (begin_snapshot(t) /\ snap'[t] # Snapshot(seq, store))
          /\ ~ ENABLED (NextSnapshot /\ obj[t] # "unborn" /\ snap'[t] # snap[t])
    /\ \A t \in Txns, k \in Keys :
          (Callable(t) /\ Unwritten(t, k)) =>
              /\ TransactionGet(t, k) = OptionOf(store[k])
              /\ ~ ENABLED (get(t, k) /\ ~ (res' = NoError /\ UNCHANGED engine))
              /\ \A o \in ReadOptions :
                    /\ ENABLED get_opt(t, k, o)
                    /\ ~ ENABLED
                         ( /\ get_opt(t, k, o)
                           /\ ~ /\ res' = Call(t, "get_opt", k,
                                        IF o = "snapshot" /\ snap[t] # NoSnapshot
                                        THEN OptionOf(snap[t].at[k])
                                        ELSE OptionOf(store[k]))
                                /\ UNCHANGED engine )

\* T1 was begun with a snapshot and has written nothing; T2 then committed
\* a put of k1.  T1's read of k1 with its snapshot returned the value of
\* the snapshot, while get(k1) returns the value T2 committed.
C21_Witness ==
    /\ res = Call("T1", "get_opt", "k1", Some(<<"s">>))
    /\ snap["T1"] = Snapshot(0, [k \in Keys |-> IF k = "k1" THEN <<"s">> ELSE Absent])
    /\ st["T1"] = "Active"
    /\ buf["T1"] = <<>>
    /\ st["T2"] = "Committed"
    /\ store["k1"] = <<"b">>
    /\ TransactionGet("T1", "k1") = Some(<<"b">>)

\* Some method is executed on the handle of t, or the handle is destroyed.
OperationOn(t) ==
    \/ \E k \in Keys : get(t, k)
    \/ \E k \in Keys, o \in ReadOptions : get_opt(t, k, o)
    \/ \E k \in Keys : iterator(t, k)
    \/ \E k \in Keys : put(t, k, Operand(t))
    \/ \E k \in Keys : delete(t, k)
    \/ \E k \in Keys : merge(t, k, Operand(t))
    \/ \E k \in Keys, x \in BOOLEAN : get_for_update(t, k, x)
    \/ LockGranted(t)
    \/ LockTimeout(t)
    \/ set_savepoint(t)
    \/ rollback_to_savepoint(t)
    \/ rollback(t)
    \/ \E late, flushed \in BOOLEAN : commit(t, late, flushed)
    \/ drop(t)

\* C22: the handle of a transaction is released exactly once on every exit
\* path.  A handle has been destroyed once when its object is gone and not
\* at all before, never twice.  commit, successful or failed, and drop, of
\* an Active or of a rolled back transaction, destroy it; rollback leaves
\* it to the drop that follows; and once the handle is destroyed no
\* operation is executed on it.
C22_ReleasedOnce ==
    \A t \in Txns :
        /\ freed[t] = IF obj[t] = "gone" THEN 1 ELSE 0
        /\ Callable(t) =>
              /\ ENABLED drop(t)
              /\ ~ ENABLED ( /\ drop(t)
                             /\ ~ /\ freed' = [freed EXCEPT ![t] = 1]
                                  /\ obj'[t] = "gone" )
              /\ ~ ENABLED ( /\ \E late, flushed \in BOOLEAN : commit(t, late, flushed)
                             /\ ~ /\ freed' = [freed EXCEPT ![t] = 1]
                                  /\ obj'[t] = "gone" )
              /\ ENABLED rollback(t)
              /\ ~ ENABLED ( /\ rollback(t)
                             /\ ~ /\ freed' = freed
                                  /\ obj'[t] = "live" )
        /\ freed[t] > 0 => ~ ENABLED OperationOn(t)
        /\ ~ ENABLED (Next /\ freed'[t] \notin {freed[t], 1})

\* T1's commit succeeded and T2's commit then failed with Busy: both
\* handles have been destroyed, once each.
C22_Witness ==
    /\ res = Call("T2", "commit", "", Err("Busy"))
    /\ st["T1"] = "Committed"
    /\ st["T2"] = "RolledBack"
    /\ obj["T1"] = "gone" /\ obj["T2"] = "gone"
    /\ freed["T1"] = 1 /\ freed["T2"] = 1
    /\ ~ ENABLED OperationOn("T1")
    /\ ~ ENABLED OperationOn("T2")

\* Value v carries the operand that transaction t writes with.
Tainted(v, t) == \E i \in DOMAIN v : <<v[i]>> = Operand(t)

\* t has begun and its commit has not succeeded: it is Active, or it was
\* rolled back or dropped.
Uncommitted(t) == st[t] \in {"Active", "RolledBack"}

\* C23: no dirty reads.  As long as the commit of T1 has not succeeded, be
\* T1 Active, rolled back or dropped, no value T1 wrote with put or merge is
\* in committed storage or in anything get or an iterator returns to another
\* transaction T2, and a key T1 has a pending delete for is still read by
\* T2 with its committed value.  Committed storage changes only in the step
\* of a successful commit, by the write buffer of the committing
\* transaction.
C23_NoDirtyReads ==
    /\ \A t1 \in Txns :
          Uncommitted(t1) =>
              /\ \A k \in Keys : ~ Tainted(store[k], t1)
              /\ \A t2 \in Txns \ {t1}, k \in Keys :
                    (Callable(t2) /\ st[t2] = "Active") =>
                        /\ ~ Tainted(TransactionGet(t2, k).val, t1)
                        /\ ~ ENABLED (get(t2, k) /\ Tainted(res'.out.val, t1))
                        /\ \A i \in DOMAIN Collect(t2, k) :
                               ~ Tainted(Collect(t2, k)[i].val, t1)
                        /\ ENABLED iterator(t2, k)
                        /\ ~ ENABLED (iterator(t2, k) /\ Tainted(res'.out.val, t1))
                        /\ ( /\ GetFromBatch(buf[t1], k).op = "delete"
                             /\ GetFromBatch(buf[t2], k).op = ""
                             /\ store[k] # Absent ) =>
                               /\ TransactionGet(t2, k) = Some(store[k])
                               /\ Head(Collect(t2, k)) = [key |-> k, val |-> store[k]]
    /\ ~ ENABLED ( /\ NextIsolation
                   /\ store' # store
                   /\ ~ \E t \in Txns :
                          /\ st[t] = "Active" /\ st'[t] = "Committed"
                          /\ store' = ApplyBatch(store, buf[t]) )

\* T1 is Active with a put of k1 pending; T2's iterator yielded k1 with the
\* committed value, and get(k1) of T2 returns it too.
C23_Witness ==
    /\ res = Call("T2", "iterator", "k1", Some(<<"s">>))
    /\ st["T1"] = "Active"
    /\ buf["T1"] = <<Entry("k1", "put", <<"a">>)>>
    /\ st["T2"] = "Active"
    /\ store["k1"] = <<"s">>
    /\ TransactionGet("T2", "k1") = Some(<<"s">>)

====
